---- MODULE Spec2Model ----
(***************************************************************************)
(* A model of src/openclaw.py: the BrowserAgent tool-calling loop          *)
(* (BrowserAgent.run, BrowserAgent.execute_tool) and the index-based       *)
(* BrowserController operations it dispatches to.                          *)
(*                                                                         *)
(* The LLM and the browser engine are the environment.  The LLM answers a  *)
(* request by raising, by returning no candidate, or by returning a batch  *)
(* of tool calls.  The engine presents a live DOM at the time of each      *)
(* page-reading operation and decides which of the operation's engine      *)
(* calls succeed.                                                          *)
(***************************************************************************)
EXTENDS Integers, Sequences, FiniteSets, TLC

\* ------------------------------------------------------------------ bounds
\* Largest step budget and longest batch explored by Spec (the agent loop).
MaxBudget == 2
MaxBatch == 2
\* Step budget and batch length explored by BrowserSpec (the controller).
BrowserBudget == 3
BrowserBatch == 1
\* Number of interactive elements a page can hold, and of tabs a run opens.
MaxElems == 2
MaxTabs == 1
\* browser_wait arguments are the rationals num/den with |num| <= MaxNum.
MaxNum == 16
MaxDen == 2
\* Longest browser_pdf file name explored by PdfSpec.
MaxName == 5

\* ------------------------------------------------------------------- state
VARIABLES
    MAX_STEPS,   \* the step budget (module constant, line 25), fixed per run
    step,        \* BrowserAgent.step
    done,        \* BrowserAgent.done
    failed,      \* BrowserAgent.failed
    result,      \* BrowserAgent.result
    history,     \* BrowserAgent.history
    pc,          \* position of run: "loop", "llm", "tool", "stopped", "raised"
    calls,       \* response.function_calls of the current step
    fc,          \* 1-based position of the call being dispatched
    responses,   \* the local list `responses` of the current step
    page,        \* BrowserController.page: the tab the session points at
    url,         \* page.url of the active page
    elements,    \* BrowserController.elements: the Snapshot Cache
    dom,         \* the live DOM at the last call of a page-reading tool
    snapDom,     \* the live DOM self.elements was last read from
    requests,    \* number of generate_content requests issued so far
    emptyCandidates, \* some response carried no candidate
    firstTerm,   \* the first terminal declaration the model issued
    last         \* record of the last execute_tool invocation of the step

agentVars == <<step, done, failed, result, history>>
localVars == <<pc, calls, fc, responses>>
browserVars == <<page, url, elements, dom, snapDom>>
ghostVars == <<requests, emptyCandidates, firstTerm, last>>
vars == <<MAX_STEPS, agentVars, localVars, browserVars, ghostVars>>

\* ------------------------------------------------------------- rationals
\* A browser_wait argument is a JSON number: modelled as a rational.
Rat(n, d) == [num |-> n, den |-> d]
RatLt(a, b) == a.num * b.den < b.num * a.den
RatEq(a, b) == a.num * b.den = b.num * a.den
RatLe(a, b) == RatLt(a, b) \/ RatEq(a, b)
\* Python's max(a, b) and min(a, b): the first argument unless the second
\* is strictly greater (smaller).
PyMax(a, b) == IF RatLt(a, b) THEN b ELSE a
PyMin(a, b) == IF RatLt(b, a) THEN b ELSE a

WAIT_MIN == 1
WAIT_MAX == 10

\* A clamp that forgets the floor.
ClampNoFloor(a) == PyMin(a, Rat(WAIT_MAX, 1))

\* line 301: seconds = min(max(args.get("seconds", 1), 1), 10)
Clamp(a) == PyMin(PyMax(a, Rat(WAIT_MIN, 1)), Rat(WAIT_MAX, 1))

\* ------------------------------------------------------------------ pages
ElemIds == 1..MaxElems
\* An interactive element (one the selector matches) is, in the live DOM,
\*   "absent": not in the document;
\*   "zero":   in the document with no box or a zero-area box;
\*   "near":   rendered, top within two viewport heights;
\*   "far":    rendered, top more than two viewport heights down.
\* Document order is the order of the ids.
ElemStates == {"absent", "zero", "near", "far"}
AllDoms == [ElemIds -> ElemStates]
BlankDom == [i \in ElemIds |-> "absent"]

IdSeq == [i \in 1..MaxElems |-> i]
InDocument(d, i) == d[i] # "absent"
\* A box test that also applies the snapshot's viewport filter.
HasBoxNearOnly(d, i) == d[i] = "near"

\* box and box['width'] > 0 and box['height'] > 0 (lines 213, 246)
HasBox(d, i) == d[i] \in {"near", "far"}
\* rect.width/height nonzero and rect.top <= innerHeight * 2 (lines 167-168)
InSnapshot(d, i) == d[i] = "near"

\* page.query_selector_all(selector): the matching handles, document order
query_selector_all(d) == SelectSeq(IdSeq, LAMBDA i : InDocument(d, i))
\* lines 161-179: the Element Records of a snapshot; `el` stands for the
\* record's tag/type/text/href, i.e. for the element they describe.
SnapshotElements(d) ==
    LET near == SelectSeq(IdSeq, LAMBDA i : InSnapshot(d, i))
    IN  [k \in 1..Len(near) |-> [index |-> k - 1, el |-> near[k]]]

RECURSIVE Walk(_, _, _, _)
Walk(els, d, index, visible_idx) ==
    IF els = <<>> THEN 0
    ELSE IF HasBox(d, Head(els))
         THEN IF visible_idx = index THEN Head(els)
              ELSE Walk(Tail(els), d, index, visible_idx + 1)
         ELSE Walk(Tail(els), d, index, visible_idx)

\* A resolution whose counter starts at one.
ResolveOneBased(d, index) == Walk(query_selector_all(d), d, index, 1)

\* lines 206-214, 228 and 239-247, 253: the element the loops of click and
\* type_text stop at for `index`, 0 when they run off the end.
Resolve(d, index) == Walk(query_selector_all(d), d, index, 0)

\* --------------------------------------------------------- engine outcomes
\* Which engine calls of one operation succeed.
\*   query:  query_selector_all and the bounding boxes / evaluate(elements)
\*   act:    the first el.click, el.fill, goto, pdf, go_back, title
\*   newtab: a new page arrives within the expect_page window
\*   load:   wait_for_load_state on the new page
\*   retry:  the second el.click, el.press("Enter")
\*   settle: the final wait_for_load_state / evaluate(body text)
Eng(q, a, n, l, r, s) ==
    [query |-> q, act |-> a, newtab |-> n, load |-> l, retry |-> r, settle |-> s]
EngOk == Eng(TRUE, TRUE, FALSE, TRUE, TRUE, TRUE)

ClickEngine ==
    { Eng(FALSE, TRUE, FALSE, TRUE, TRUE, TRUE),
      Eng(TRUE, TRUE, TRUE, TRUE, TRUE, TRUE),
      Eng(TRUE, TRUE, TRUE, FALSE, TRUE, TRUE),
      Eng(TRUE, TRUE, TRUE, FALSE, TRUE, FALSE),
      Eng(TRUE, TRUE, TRUE, FALSE, FALSE, TRUE),
      Eng(TRUE, TRUE, FALSE, TRUE, TRUE, TRUE),
      Eng(TRUE, TRUE, FALSE, TRUE, TRUE, FALSE),
      Eng(TRUE, TRUE, FALSE, TRUE, FALSE, TRUE),
      Eng(TRUE, FALSE, FALSE, TRUE, TRUE, TRUE),
      Eng(TRUE, FALSE, FALSE, TRUE, TRUE, FALSE),
      Eng(TRUE, FALSE, FALSE, TRUE, FALSE, TRUE) }
TypeEngine ==
    { Eng(FALSE, TRUE, FALSE, TRUE, TRUE, TRUE),
      Eng(TRUE, FALSE, FALSE, TRUE, TRUE, TRUE),
      Eng(TRUE, TRUE, FALSE, TRUE, TRUE, TRUE),
      Eng(TRUE, TRUE, FALSE, TRUE, FALSE, TRUE),
      Eng(TRUE, TRUE, FALSE, TRUE, TRUE, FALSE) }
SnapshotEngine ==
    { EngOk,
      Eng(TRUE, FALSE, FALSE, TRUE, TRUE, TRUE),
      Eng(FALSE, TRUE, FALSE, TRUE, TRUE, TRUE),
      Eng(TRUE, TRUE, FALSE, TRUE, TRUE, FALSE) }
ActEngine == { EngOk, Eng(TRUE, FALSE, FALSE, TRUE, TRUE, TRUE) }
BackEngine == ActEngine \cup { Eng(TRUE, TRUE, FALSE, TRUE, TRUE, FALSE) }

Engine(name) ==
    CASE name = "browser_click" -> ClickEngine
      [] name = "browser_type" -> TypeEngine
      [] name = "browser_snapshot" -> SnapshotEngine
      [] name \in {"browser_navigate", "browser_pdf"} -> ActEngine
      [] name = "browser_back" -> BackEngine
      [] OTHER -> { EngOk }

ReadsPage(name) == name \in {"browser_snapshot", "browser_click", "browser_type"}

\* -------------------------------------------------------------- strings
\* A file name is a sequence of characters.
PdfSuffix == <<".", "p", "d", "f">>
EndsWith(s, suffix) ==
    /\ Len(s) >= Len(suffix)
    /\ SubSeq(s, Len(s) - Len(suffix) + 1, Len(s)) = suffix
StartsWith(s, prefix) ==
    /\ Len(s) >= Len(prefix)
    /\ SubSeq(s, 1, Len(prefix)) = prefix
\* line 26: "./browser_output"
OUTPUT_DIR ==
    <<".", "/", "b", "r", "o", "w", "s", "e", "r", "_", "o", "u", "t", "p", "u", "t">>
Sep == <<"/">>
\* os.path.join(a, p) on POSIX (line 262): an absolute p discards a; the
\* separator is inserted unless a is empty or ends with one.
os_path_join(a, p) ==
    IF StartsWith(p, Sep) THEN p
    ELSE IF a = <<>> \/ EndsWith(a, Sep) THEN a \o p
    ELSE a \o Sep \o p

\* ------------------------------------------------- BrowserController
\* The operations work on a record of the fields they read and write:
\*   page, url, elements: the controller's fields;
\*   snapped: the live DOM `elements` was read from;
\*   done, failed, result: the agent's fields;
\*   clicked, filled, slept, saved: what the invocation did (el.click and
\*   el.fill calls performed, seconds slept, file written);
\*   queried: the invocation asked the live page for its elements.
Return(st, value) == [st |-> st, raised |-> FALSE, exc |-> "", value |-> value]
Raise(st, exc) == [st |-> st, raised |-> TRUE, exc |-> exc, value |-> [msg |-> ""]]

\* A navigation that also empties the Snapshot Cache.
goto_and_invalidate(st, target) == [st EXCEPT !.url = target, !.elements = <<>>]

\* line 152: page.goto succeeded; the active page shows the target.
goto(st, target) == [st EXCEPT !.url = target]

\* lines 151-153
navigate(st, target, eng) ==
    IF ~eng.act THEN Raise(st, "PlaywrightError")
    ELSE Return(goto(st, target), [msg |-> "Navigated to", url |-> target])

\* lines 155-197
snapshot(st, live, eng) ==
    IF ~eng.act THEN Raise(st, "PlaywrightError")
    ELSE LET sq == [st EXCEPT !.queried = TRUE] IN
         IF ~eng.query THEN Raise(sq, "PlaywrightError")
         ELSE LET st1 == [sq EXCEPT !.elements = SnapshotElements(live), !.snapped = live]
              IN  IF ~eng.settle THEN Raise(st1, "PlaywrightError")
                  ELSE Return(st1, [msg |-> "Interactive elements", url |-> st.url,
                                    listed |-> st1.elements])

\* A hand-off that keeps the old page.
SamePage(p) == p

\* lines 219-220: new_page_info.value, the tab the click opened; tabs are
\* numbered in the order they open.
new_page(p) == p + 1

\* lines 223-227: the except branch of click
click_retry(st, index, elem, el, eng) ==
    IF ~eng.retry THEN Return(st, [msg |-> "Error clicking"])
    ELSE LET st1 == [st EXCEPT !.clicked = Append(@, el)]
         IN  IF ~eng.settle THEN Return(st1, [msg |-> "Error clicking"])
             ELSE Return(st1, [msg |-> "Clicked element", index |-> index,
                               label |-> elem.el, newtab |-> FALSE])

\* A gate that tests the sign of the index only.
InvalidIndexNegativeOnly(index, n) == index < 0

\* lines 200, 235: index < 0 or index >= len(self.elements)
InvalidIndex(index, n) == index < 0 \/ index >= n

\* Python's list[index]: an index in -len..len-1 (a negative one counts
\* from the end), IndexError otherwise.
PyIndexOk(l, index) == 0 - Len(l) <= index /\ index < Len(l)
PyGet(l, index) == IF index >= 0 THEN l[index + 1] ELSE l[Len(l) + index + 1]

\* lines 199-232
click(st, index, live, eng) ==
    IF InvalidIndex(index, Len(st.elements))
    THEN Return(st, [msg |-> "Error: Invalid element index", index |-> index])
    ELSE IF ~PyIndexOk(st.elements, index) THEN Raise(st, "IndexError")
    ELSE LET elem == PyGet(st.elements, index)
             el == Resolve(live, index)
             sq == [st EXCEPT !.queried = TRUE]
         IN  IF ~eng.query THEN Return(sq, [msg |-> "Error clicking"])
             ELSE IF el = 0
             THEN Return(sq, [msg |-> "Error: Could not find element", index |-> index])
             ELSE IF ~eng.act THEN click_retry(sq, index, elem, el, eng)
             ELSE LET st1 == [sq EXCEPT !.clicked = Append(@, el)]
                  IN  IF ~eng.newtab THEN click_retry(st1, index, elem, el, eng)
                      ELSE LET st2 == [st1 EXCEPT !.page = new_page(@), !.url = "new tab"]
                           IN  IF ~eng.load THEN click_retry(st2, index, elem, el, eng)
                               ELSE Return(st2, [msg |-> "Clicked element", index |-> index,
                                                 label |-> elem.el, newtab |-> TRUE])

\* lines 234-257
type_text(st, index, text, submit, live, eng) ==
    IF InvalidIndex(index, Len(st.elements))
    THEN Return(st, [msg |-> "Error: Invalid element index", index |-> index])
    ELSE LET el == Resolve(live, index)
             sq == [st EXCEPT !.queried = TRUE]
         IN  IF ~eng.query THEN Return(sq, [msg |-> "Error typing"])
             ELSE IF el = 0
             THEN Return(sq, [msg |-> "Error: Could not find element", index |-> index])
             ELSE IF ~eng.act THEN Return(sq, [msg |-> "Error typing"])
             ELSE LET st1 == [sq EXCEPT !.filled = Append(@, el)]
                  IN  IF submit /\ (~eng.retry \/ ~eng.settle)
                      THEN Return(st1, [msg |-> "Error typing"])
                      ELSE Return(st1, [msg |-> "Typed", text |-> text, index |-> index])

\* lines 259-264
save_pdf(st, filename, eng) ==
    LET name == IF EndsWith(filename, PdfSuffix) THEN filename
                ELSE filename \o PdfSuffix
        filepath == os_path_join(OUTPUT_DIR, name)
    IN  IF ~eng.act THEN Raise(st, "PlaywrightError")
        ELSE Return([st EXCEPT !.saved = Append(@, filepath)],
                    [msg |-> "Saved PDF to", path |-> filepath])

\* lines 266-269
go_back(st, eng) ==
    IF ~eng.act \/ ~eng.settle THEN Raise(st, "PlaywrightError")
    ELSE Return(st, [msg |-> "Went back to previous page"])

\* ------------------------------------------------------- BrowserAgent
NoArgs == [k \in {} |-> 0]
Call(name, args) == [name |-> name, args |-> args]
\* args.get(key, default)
ArgGet(args, key, default) == IF key \in DOMAIN args THEN args[key] ELSE default
Terminal(name) == name \in {"task_complete", "task_failed"}

\* lines 289-327.  args[key] on a missing key raises KeyError.
execute_tool(st, name, args, live, eng) ==
    CASE name = "task_complete" ->
           LET r == ArgGet(args, "summary", "Done")
           IN  Return([st EXCEPT !.done = TRUE, !.result = r],
                      [msg |-> "Task complete", text |-> r])
      [] name = "task_failed" ->
           LET r == ArgGet(args, "reason", "Failed")
           IN  Return([st EXCEPT !.failed = TRUE, !.result = r],
                      [msg |-> "Task failed", text |-> r])
      [] name = "browser_wait" ->
           LET seconds == Clamp(ArgGet(args, "seconds", Rat(1, 1)))
           IN  Return([st EXCEPT !.slept = Append(@, seconds)],
                      [msg |-> "Waited", seconds |-> seconds])
      [] name = "browser_navigate" ->
           IF "url" \notin DOMAIN args THEN Raise(st, "KeyError")
           ELSE navigate(st, args.url, eng)
      [] name = "browser_snapshot" -> snapshot(st, live, eng)
      [] name = "browser_click" ->
           IF "index" \notin DOMAIN args THEN Raise(st, "KeyError")
           ELSE click(st, args.index, live, eng)
      [] name = "browser_type" ->
           IF "index" \notin DOMAIN args \/ "text" \notin DOMAIN args
           THEN Raise(st, "KeyError")
           ELSE type_text(st, args.index, args.text,
                          ArgGet(args, "submit", FALSE), live, eng)
      [] name = "browser_pdf" ->
           IF "filename" \notin DOMAIN args THEN Raise(st, "KeyError")
           ELSE save_pdf(st, args.filename, eng)
      [] name = "browser_back" -> go_back(st, eng)
      [] OTHER -> Return(st, [msg |-> "Unknown tool", name |-> name])

\* The turns of the conversation history.  A model turn lists the positions
\* of its tool calls; a tool-response turn lists, entry by entry, the
\* position of the call each entry answers.
TextTurn(kind) == [role |-> "user", kind |-> kind, parts |-> <<>>]
ModelTurn(batch) ==
    [role |-> "model", kind |-> "calls", parts |-> [i \in 1..Len(batch) |-> i]]
ResponsesTurn(rs) ==
    [role |-> "user", kind |-> "responses", parts |-> [i \in 1..Len(rs) |-> rs[i].pos]]

\* An except clause that names the transport's error class only.
CatchesAPIErrorOnly(exc) == exc = "APIError"

\* An except clause that names the errors of tool execution only.
CatchesToolErrorsOnly(exc) == exc \in {"KeyError", "PlaywrightError"}

\* line 411: except Exception.  Every error the LLM client, the engine and
\* a dict lookup raise derives from Exception.
Catches(exc) == exc \in {"APIError", "KeyError", "IndexError", "PlaywrightError"}

\* A loop condition that is off by one.
WhileCondOffByOne == step <= MAX_STEPS /\ ~done /\ ~failed

\* A loop condition that looks at the budget only.
WhileCondBudgetOnly == step < MAX_STEPS

\* line 359
WhileCond == step < MAX_STEPS /\ ~done /\ ~failed

\* A batch loop without its break.
NeverBreak(d, f) == FALSE

\* lines 405-406
BreakOnTerminal(d, f) == d \/ f

\* lines 419-424
Outcome ==
    IF done THEN "COMPLETED" ELSE IF failed THEN "FAILED" ELSE "MAX STEPS REACHED"

NoLast == [pos |-> 0]
NoTerm == [turn |-> 0, pos |-> 0, call |-> Call("", NoArgs)]

\* The state after BrowserAgent.__init__, browser.start() and the append of
\* the system prompt (lines 277-287, 140-143, 354-357).
Init(budgets) ==
    /\ MAX_STEPS \in budgets
    /\ step = 0 /\ done = FALSE /\ failed = FALSE /\ result = ""
    /\ history = <<TextTurn("system")>>
    /\ pc = "loop" /\ calls = <<>> /\ fc = 0 /\ responses = <<>>
    /\ page = 0 /\ url = "about:blank" /\ elements = <<>> /\ dom = BlankDom
    /\ snapDom = BlankDom
    /\ requests = 0 /\ emptyCandidates = FALSE /\ firstTerm = NoTerm
    /\ last = NoLast

\* lines 359-361: the loop condition holds; a new step begins.
LoopEnter ==
    /\ pc = "loop" /\ WhileCond
    /\ step' = step + 1
    /\ pc' = "llm" /\ calls' = <<>> /\ fc' = 0 /\ responses' = <<>>
    /\ last' = NoLast
    /\ UNCHANGED <<MAX_STEPS, done, failed, result, history, browserVars,
                   requests, emptyCandidates, firstTerm>>

\* lines 359, 418-429: the loop condition fails; report and stop.
LoopExit ==
    /\ pc = "loop" /\ ~WhileCond
    /\ pc' = "stopped" /\ calls' = <<>> /\ fc' = 0 /\ responses' = <<>>
    /\ last' = NoLast
    /\ UNCHANGED <<MAX_STEPS, agentVars, browserVars, requests, emptyCandidates,
                   firstTerm>>

\* lines 411-416 (and 428-429 when the error is not caught)
Handler(exc) ==
    IF Catches(exc)
    THEN history' = Append(history, TextTurn("error")) /\ pc' = "loop"
    ELSE history' = history /\ pc' = "raised"

\* lines 364-374, 411-416: generate_content raises.
LLMRaises ==
    /\ pc = "llm"
    /\ requests' = requests + 1
    /\ Handler("APIError")
    /\ UNCHANGED <<MAX_STEPS, step, done, failed, result, calls, fc, responses,
                   browserVars, emptyCandidates, firstTerm, last>>

\* A no-candidate branch that goes back to the loop head.
NoCandidateContinue == "loop"

\* line 378: break leaves the while loop; lines 418-429 follow.
NoCandidateBreak == "stopped"

\* lines 364-378: the response carries no candidate; break.
LLMNoCandidate ==
    /\ pc = "llm"
    /\ requests' = requests + 1
    /\ emptyCandidates' = TRUE
    /\ pc' = NoCandidateBreak
    /\ UNCHANGED <<MAX_STEPS, agentVars, calls, fc, responses, browserVars,
                   firstTerm, last>>

\* A no-tool-call branch that appends nothing.
NoNudge == <<>>

\* lines 383-386: the turn "Continue with a tool call."
Nudge == <<TextTurn("nudge")>>

FirstTerminal(batch) ==
    LET ps == {i \in 1..Len(batch) : Terminal(batch[i].name)}
        p == CHOOSE i \in ps : \A j \in ps : i <= j
    IN  [turn |-> step, pos |-> p, call |-> batch[p]]

\* lines 364-389: the response carries a candidate with the tool calls
\* `batch` (possibly none).
LLMContent(Calls, maxBatch) ==
    /\ pc = "llm"
    /\ requests' = requests + 1
    /\ \E n \in 0..maxBatch : \E batch \in [1..n -> Calls] :
         /\ firstTerm' = IF firstTerm.turn = 0 /\ \E i \in 1..n : Terminal(batch[i].name)
                         THEN FirstTerminal(batch) ELSE firstTerm
         /\ IF n = 0
            THEN /\ history' = history \o <<ModelTurn(batch)>> \o Nudge
                 /\ pc' = "loop"
                 /\ UNCHANGED <<calls, fc, responses>>
            ELSE /\ history' = Append(history, ModelTurn(batch))
                 /\ calls' = batch /\ fc' = 1 /\ responses' = <<>>
                 /\ pc' = "tool"
    /\ UNCHANGED <<MAX_STEPS, step, done, failed, result, browserVars,
                   emptyCandidates, last>>

\* lines 390-416: one pass of the for loop over response.function_calls,
\* with what follows it when the pass is the last one (lines 408-409) or
\* when execute_tool raises (lines 411-416).
Dispatch(Doms) ==
    /\ pc = "tool"
    /\ LET c == calls[fc] IN
       \E live \in (IF ReadsPage(c.name) /\ url # "about:blank" THEN Doms ELSE {dom}),
          eng \in {e \in Engine(c.name) : e.newtab => page < MaxTabs} :
         LET st0 == [done |-> done, failed |-> failed, result |-> result,
                     page |-> page, url |-> url, elements |-> elements,
                     snapped |-> snapDom, queried |-> FALSE,
                     clicked |-> <<>>, filled |-> <<>>, slept |-> <<>>, saved |-> <<>>]
             out == execute_tool(st0, c.name, c.args, live, eng)
             st == out.st
             rs == Append(responses, [pos |-> fc, name |-> c.name, response |-> out.value])
         IN  /\ done' = st.done /\ failed' = st.failed /\ result' = st.result
             /\ page' = st.page /\ url' = st.url /\ elements' = st.elements
             /\ dom' = live /\ snapDom' = st.snapped
             /\ last' = [pos |-> fc, call |-> c, eng |-> eng, raised |-> out.raised,
                         value |-> out.value, clicked |-> st.clicked,
                         filled |-> st.filled, slept |-> st.slept, saved |-> st.saved,
                         queried |-> st.queried]
             /\ IF out.raised
                THEN Handler(out.exc) /\ UNCHANGED <<fc, responses>>
                ELSE /\ responses' = rs
                     /\ IF BreakOnTerminal(st.done, st.failed) \/ fc = Len(calls)
                        THEN /\ history' = Append(history, ResponsesTurn(rs))
                             /\ pc' = "loop" /\ fc' = fc
                        ELSE /\ history' = history
                             /\ pc' = "tool" /\ fc' = fc + 1
    /\ UNCHANGED <<MAX_STEPS, step, calls, requests, emptyCandidates, firstTerm>>

Next(Calls, Doms, maxBatch) ==
    \/ LoopEnter
    \/ LoopExit
    \/ LLMRaises
    \/ LLMNoCandidate
    \/ LLMContent(Calls, maxBatch)
    \/ Dispatch(Doms)

\* ------------------------------------------------------------ environments
Summary == "reported title"
Reason == "stuck"
Url == "https://example.com"

\* The agent loop: terminal declarations with and without their payload, a
\* tool that returns or raises (navigate, as the engine decides), an unknown
\* tool.
LoopCalls ==
    { Call("task_complete", [summary |-> Summary]), Call("task_complete", NoArgs),
      Call("task_failed", [reason |-> Reason]), Call("task_failed", NoArgs),
      Call("browser_navigate", [url |-> Url]),
      Call("browser_scroll", NoArgs) }

Spec == Init(0..MaxBudget) /\ [][Next(LoopCalls, {BlankDom}, MaxBatch)]_vars
FairSpec == Spec /\ WF_vars(Next(LoopCalls, {BlankDom}, MaxBatch))

\* The controller: every browser operation, indices from -1 to one past the
\* largest page, any DOM at each page read.
Indices == (0 - 1)..MaxElems
BrowserCalls ==
    { Call("browser_snapshot", NoArgs), Call("browser_click", NoArgs),
      Call("browser_navigate", [url |-> Url]), Call("browser_navigate", NoArgs),
      Call("browser_back", NoArgs),
      Call("browser_pdf", [filename |-> <<"r">>]),
      Call("browser_type", [index |-> 0, text |-> "q", submit |-> TRUE]) }
    \cup { Call("browser_click", [index |-> i]) : i \in Indices }
    \cup { Call("browser_type", [index |-> i, text |-> "q"]) : i \in Indices }

BrowserSpec ==
    Init({BrowserBudget}) /\ [][Next(BrowserCalls, AllDoms, BrowserBatch)]_vars

\* browser_wait alone, over a range of arguments.
Rats == { Rat(n, d) : n \in (0 - MaxNum)..MaxNum, d \in 1..MaxDen }
WaitCalls ==
    { Call("browser_wait", [seconds |-> r]) : r \in Rats }
    \cup { Call("browser_wait", NoArgs) }

WaitSpec == Init(0..MaxBudget) /\ [][Next(WaitCalls, {BlankDom}, BrowserBatch)]_vars

\* browser_pdf alone, over every file name of up to MaxName characters.
NameChars == {"/", ".", "p", "d", "f"}
Names == UNION { [1..n -> NameChars] : n \in 0..MaxName }
PdfCalls ==
    { Call("browser_pdf", [filename |-> f]) : f \in Names }
    \cup { Call("browser_pdf", NoArgs) }

PdfSpec == Init(0..MaxBudget) /\ [][Next(PdfCalls, {BlankDom}, BrowserBatch)]_vars

\* -------------------------------------------------------------- properties
\* The visible interactive set of a DOM: the rendered elements (a box of
\* nonzero area), in document order.
VisibleSet(d) == SelectSeq(IdSeq, LAMBDA i : d[i] \in {"near", "far"})
Dispatched == last.pos > 0
IndexCall ==
    /\ Dispatched
    /\ last.call.name \in {"browser_click", "browser_type"}
    /\ "index" \in DOMAIN last.call.args
    /\ (last.call.name = "browser_type" => "text" \in DOMAIN last.call.args)
BadIndex(i) == i < 0 \/ i >= Len(VisibleSet(dom))
PassedCacheGate(i) == 0 <= i /\ i < Len(elements)
IndexErrors == {"Error: Invalid element index", "Error: Could not find element"}
EngineErrors == {"Error clicking", "Error typing"}
\* The entry appended to `responses` for the last call is its return value.
AnsweredWithValue ==
    /\ ~last.raised
    /\ responses # <<>>
    /\ responses[Len(responses)].pos = last.pos
    /\ responses[Len(responses)].response = last.value
\* The run is Running and its loop goes on: it is at the loop head or inside
\* a batch.
Running == ~done /\ ~failed /\ pc \in {"loop", "tool"}

\* C1. Once a task_complete or task_failed call has been processed (done or
\* failed is set), the run takes no step but the one that stops it: no tool
\* call is dispatched, no LLM request is issued.
C1_TerminalInvariant ==
    [][(done \/ failed) =>
          (requests' = requests /\ last' \in {last, NoLast} /\ pc' = "stopped")]_vars

\* A terminal call has been processed in the first place of a longer batch,
\* with budget left.
C1_Witness ==
    /\ pc = "loop" /\ (done \/ failed)
    /\ Dispatched /\ last.pos = 1 /\ Len(calls) > 1
    /\ Len(responses) = 1
    /\ step < MAX_STEPS /\ requests = step

\* C2. Whenever an LLM request is about to be issued, every model turn of
\* the history that carries N >= 1 tool calls is followed by a tool-response
\* turn with exactly N entries answering the calls in order.
C2_Pairing ==
    pc = "llm" =>
      \A i \in 1..Len(history) :
        (history[i].kind = "calls" /\ Len(history[i].parts) >= 1) =>
          /\ i < Len(history)
          /\ history[i + 1].kind = "responses"
          /\ history[i + 1].parts = history[i].parts

\* C3. step and the number of LLM requests never exceed the budget; a run
\* in which every response had a candidate and no terminal call was issued
\* stops after exactly MAX_STEPS requests, neither done nor failed, with an
\* empty result message.
C3_StepBudget ==
    /\ step <= MAX_STEPS
    /\ requests <= MAX_STEPS
    /\ (pc = "stopped" /\ firstTerm.turn = 0 /\ ~emptyCandidates) =>
          /\ requests = MAX_STEPS /\ step = MAX_STEPS
          /\ ~done /\ ~failed /\ result = ""
          /\ Outcome = "MAX STEPS REACHED"

\* A budget of at least two was used up by a step that raised and a step
\* that answered a batch of tool calls.
C3_Witness ==
    /\ pc = "stopped" /\ firstTerm.turn = 0 /\ ~emptyCandidates
    /\ MAX_STEPS >= 2 /\ requests = MAX_STEPS
    /\ \E i \in 1..Len(history) : history[i].kind = "error"
    /\ \E i \in 1..Len(history) : history[i].kind = "responses"

\* C4. When the run has stopped and the first terminal declaration the model
\* issued was task_complete(summary=s) in turn k, the run is Completed with
\* result s and step = k requests; symmetrically for task_failed(reason=r).
C4_Completion ==
    (pc = "stopped" /\ firstTerm.turn > 0) =>
      LET c == firstTerm.call IN
      /\ (c.name = "task_complete" /\ "summary" \in DOMAIN c.args) =>
            /\ done /\ ~failed /\ result = c.args.summary
            /\ step = firstTerm.turn /\ requests = firstTerm.turn
      /\ (c.name = "task_failed" /\ "reason" \in DOMAIN c.args) =>
            /\ failed /\ ~done /\ result = c.args.reason
            /\ step = firstTerm.turn /\ requests = firstTerm.turn

\* C5 as stated. A click or type with an index that is negative or not below
\* the number of visible elements clicks and fills nothing, is answered with
\* an error naming the index, and leaves the run going.
C5_BadIndexNamesIndex ==
    (IndexCall /\ BadIndex(last.call.args.index)) =>
      /\ last.clicked = <<>> /\ last.filled = <<>>
      /\ AnsweredWithValue
      /\ last.value.msg \in IndexErrors
      /\ last.value.index = last.call.args.index
      /\ Running

\* C5 amended. As stated, except that the error is the engine's ("Error
\* clicking", "Error typing") when the index passes the cache-length gate
\* and the engine raises while the live page is enumerated.
C5_BadIndex ==
    (IndexCall /\ BadIndex(last.call.args.index)) =>
      LET i == last.call.args.index IN
      /\ last.clicked = <<>> /\ last.filled = <<>>
      /\ AnsweredWithValue
      /\ IF PassedCacheGate(i) /\ ~last.eng.query
         THEN last.value.msg \in EngineErrors
         ELSE last.value.msg \in IndexErrors /\ last.value.index = i
      /\ Running

\* browser_click(index) on a page whose visible elements are fewer than
\* index + 1 was answered with an index error naming it, and the loop is at
\* its head with budget left.
C5_Witness ==
    /\ IndexCall /\ last.call.name = "browser_click"
    /\ Len(VisibleSet(dom)) >= 1
    /\ last.call.args.index >= Len(VisibleSet(dom))
    /\ last.value.msg \in IndexErrors
    /\ last.value.index = last.call.args.index
    /\ last.clicked = <<>>
    /\ pc = "loop" /\ WhileCond

EngineFailed ==
    /\ Dispatched
    /\ LET n == last.call.name
           a == last.call.args
           e == last.eng
       IN  CASE n = "browser_navigate" -> "url" \in DOMAIN a /\ ~e.act
             [] n = "browser_pdf" -> "filename" \in DOMAIN a /\ ~e.act
             [] n = "browser_back" -> ~e.act \/ ~e.settle
             [] n = "browser_snapshot" -> ~e.act \/ ~e.query \/ ~e.settle
             [] n = "browser_click" ->
                  /\ IndexCall /\ PassedCacheGate(a.index)
                  /\ \/ ~e.query
                     \/ /\ ~BadIndex(a.index)
                        /\ (~e.act \/ ~e.load \/ ~e.retry \/ ~e.settle)
             [] n = "browser_type" ->
                  /\ IndexCall /\ PassedCacheGate(a.index)
                  /\ \/ ~e.query
                     \/ /\ ~BadIndex(a.index)
                        /\ (~e.act \/ (ArgGet(a, "submit", FALSE)
                                        /\ (~e.retry \/ ~e.settle)))
             [] OTHER -> FALSE

\* C7. When the engine fails inside a tool call, the call is answered with
\* an error string as its tool-response entry and the run keeps going.
C7_EngineFailureIsToolResult ==
    EngineFailed =>
      /\ AnsweredWithValue
      /\ last.value.msg \in EngineErrors
      /\ Running

\* C8. A click that the engine carries out without an error and that is
\* answered "Clicked element" has clicked the element exactly once, with a
\* new tab and without.
C8_ClickOnce ==
    (/\ IndexCall /\ last.call.name = "browser_click"
     /\ last.eng.query /\ last.eng.act /\ last.eng.load
     /\ last.eng.retry /\ last.eng.settle
     /\ last.value.msg = "Clicked element") =>
       Len(last.clicked) = 1

\* C9. The run stops, and stays stopped, in one of the three outcomes, done
\* and failed never both set, no exception having left the loop.
C9_Terminates ==
    <>[](/\ pc = "stopped"
         /\ ~(done /\ failed)
         /\ Outcome \in {"COMPLETED", "FAILED", "MAX STEPS REACHED"})

\* A run stopped, neither done nor failed, after a turn without tool calls
\* and a turn that raised.
C9_Witness ==
    /\ pc = "stopped" /\ ~done /\ ~failed
    /\ \E i \in 1..Len(history) : history[i].kind = "nudge"
    /\ \E i \in 1..Len(history) : history[i].kind = "error"

\* C10. browser_wait sleeps d seconds with 1 <= d <= 10: d = s for an
\* argument s in [1, 10], 1 for s < 1 and for a missing argument, 10 for
\* s > 10.
C10_WaitClamp ==
    (Dispatched /\ last.call.name = "browser_wait") =>
      /\ Len(last.slept) = 1
      /\ LET d == last.slept[1]
             lo == Rat(1, 1)
             hi == Rat(10, 1)
         IN  /\ RatLe(lo, d) /\ RatLe(d, hi)
             /\ IF "seconds" \in DOMAIN last.call.args
                THEN LET s == last.call.args.seconds
                     IN  /\ (RatLe(lo, s) /\ RatLe(s, hi)) => d = s
                         /\ RatLt(s, lo) => RatEq(d, lo)
                         /\ RatLt(hi, s) => RatEq(d, hi)
                ELSE RatEq(d, lo)

\* browser_wait(0.5) slept one second.
C10_Witness ==
    /\ Dispatched /\ last.call.name = "browser_wait"
    /\ "seconds" \in DOMAIN last.call.args
    /\ last.call.args.seconds = Rat(1, 2)
    /\ last.slept = <<Rat(1, 1)>>

\* A browser_pdf call that returned.
PdfReturned ==
    /\ Dispatched /\ last.call.name = "browser_pdf"
    /\ "filename" \in DOMAIN last.call.args
    /\ ~last.raised

\* C11. save_pdf(f) writes one file, OUTPUT_DIR/f when f ends with ".pdf"
\* and OUTPUT_DIR/(f + ".pdf") otherwise, and returns that path: the name
\* under the output directory ends with ".pdf" and carries the suffix once
\* more than f only when f did not end with it.
C11_PdfName ==
    PdfReturned =>
      LET f == last.call.args.filename
          pdf == <<".", "p", "d", "f">>
          want == IF Len(f) >= 4 /\ SubSeq(f, Len(f) - 3, Len(f)) = pdf
                  THEN f ELSE f \o pdf
          target == OUTPUT_DIR \o <<"/">> \o want
      IN  /\ last.saved = <<target>>
          /\ last.value.msg = "Saved PDF to"
          /\ last.value.path = target

\* The 1-based position of the first terminal declaration of the batch.
FirstTerminalPos(batch) ==
    CHOOSE p \in 1..Len(batch) :
      /\ Terminal(batch[p].name)
      /\ \A j \in 1..(p - 1) : ~Terminal(batch[j].name)
HasTerminal(batch) == \E p \in 1..Len(batch) : Terminal(batch[p].name)

\* C12. In a batch whose first terminal declaration is at 1-based position
\* p, no call after p is dispatched, and when the step is over the calls
\* 1..p have been dispatched in order, the terminal state is set, and the
\* history ends with the model turn followed by one tool-response turn of p
\* entries answering the calls 1..p in order.
C12_MidBatch ==
    HasTerminal(calls) =>
      LET p == FirstTerminalPos(calls)
          n == Len(history)
      IN  /\ pc = "tool" => fc <= p
          /\ Dispatched => last.pos <= p
          /\ pc = "loop" =>
                /\ Dispatched /\ last.pos = p /\ ~last.raised
                /\ done \/ failed
                /\ Len(responses) = p
                /\ \A i \in 1..p : responses[i].pos = i /\ responses[i].name = calls[i].name
                /\ n >= 2
                /\ history[n].role = "user" /\ history[n].kind = "responses"
                /\ history[n].parts = [i \in 1..p |-> i]
                /\ history[n - 1].kind = "calls"
                /\ Len(history[n - 1].parts) = Len(calls)

\* C13. done and failed are never both set; once set neither is cleared and
\* the result message no longer changes; the result message changes only in
\* the dispatch of a task_complete or task_failed call.
C13_OneWay ==
    /\ [](~(done /\ failed))
    /\ [][/\ done => done'
          /\ failed => failed'
          /\ (done \/ failed) => result' = result
          /\ (done' # done \/ failed' # failed \/ result' # result) =>
                /\ pc = "tool" /\ Terminal(calls[fc].name)
                /\ last'.pos = fc /\ last'.call = calls[fc]]_vars

\* A run stopped Failed with the reason given by the call, with budget
\* left, the declaration having come second in its batch.
C13_Witness ==
    /\ pc = "stopped" /\ failed /\ ~done /\ result = Reason
    /\ step < MAX_STEPS
    /\ history[Len(history)].kind = "responses"
    /\ Len(history[Len(history)].parts) = 2

\* A step in which the pending LLM request produced no response: neither a
\* response without candidates nor a model turn.
LLMRaisedStep ==
    /\ pc = "llm"
    /\ ~emptyCandidates'
    /\ ~(/\ Len(history') > Len(history)
          /\ history'[Len(history) + 1].role = "model")

\* C14. When the LLM request of a step raises, one user-role text turn
\* describing the error is appended, no tool is dispatched in the step, the
\* browser is untouched, the run stays Running with the step counted, and
\* the loop is back at its head, where it goes on if budget remains.
C14_TransportError ==
    [][LLMRaisedStep =>
          /\ history' = Append(history, [role |-> "user", kind |-> "error", parts |-> <<>>])
          /\ last' = NoLast /\ calls' = <<>> /\ responses' = <<>>
          /\ UNCHANGED browserVars
          /\ ~done' /\ ~failed' /\ result' = result
          /\ step' = step /\ requests' = step
          /\ pc' = "loop"
          /\ (step < MAX_STEPS) => WhileCond']_vars

\* The loop is at its head with budget left, after a step whose request
\* raised: the history ends with the error turn and nothing was dispatched.
C14_Witness ==
    /\ pc = "loop" /\ WhileCond /\ step >= 1
    /\ history[Len(history)].kind = "error"
    /\ ~Dispatched /\ calls = <<>>
    /\ requests = step

\* C15. When a response carries no candidate the run stops in that step,
\* neither done nor failed (reported as MAX STEPS REACHED), with nothing
\* appended to the history, no tool dispatched, the browser untouched, and
\* no LLM request issued afterwards, whatever budget is left.
C15_NoCandidate ==
    /\ [][(pc = "llm" /\ emptyCandidates') =>
            /\ requests' = requests + 1
            /\ history' = history
            /\ last' = NoLast /\ calls' = <<>> /\ responses' = <<>>
            /\ UNCHANGED browserVars
            /\ step' = step
            /\ pc' = "stopped"]_vars
    /\ [](emptyCandidates =>
            /\ pc = "stopped" /\ ~done /\ ~failed /\ result = ""
            /\ Outcome = "MAX STEPS REACHED")
    /\ [][emptyCandidates =>
            (requests' = requests /\ history' = history /\ last' = last)]_vars

\* A run stopped by a response without candidates, with budget left.
C15_Witness ==
    /\ emptyCandidates /\ pc = "stopped"
    /\ step < MAX_STEPS
    /\ requests = step
    /\ ~done /\ ~failed

\* A step in which the model turn appended for the pending request carries
\* no tool call.
NoToolCallStep ==
    /\ pc = "llm"
    /\ Len(history') > Len(history)
    /\ history'[Len(history) + 1].role = "model"
    /\ history'[Len(history) + 1].parts = <<>>

\* C16. When the model returns a candidate without tool calls, the model
\* turn and then one user turn "Continue with a tool call." are appended,
\* no tool is executed, the browser, the Snapshot Cache and the terminal
\* state are unchanged, and the loop is back at its head with the step
\* counted, going on if budget remains.
C16_NoToolCall ==
    [][NoToolCallStep =>
          /\ history' = history \o
                <<[role |-> "model", kind |-> "calls", parts |-> <<>>],
                  [role |-> "user", kind |-> "nudge", parts |-> <<>>]>>
          /\ last' = NoLast /\ responses' = <<>>
          /\ UNCHANGED <<browserVars, done, failed, result>>
          /\ step' = step /\ requests' = step
          /\ pc' = "loop"
          /\ (step < MAX_STEPS) => WhileCond']_vars

\* The loop is at its head with budget left and the history ends with a
\* model turn without tool calls and the nudge.
C16_Witness ==
    /\ pc = "loop" /\ WhileCond /\ ~Dispatched
    /\ Len(history) >= 3
    /\ history[Len(history)].kind = "nudge"
    /\ history[Len(history) - 1].role = "model"
    /\ history[Len(history) - 1].parts = <<>>

C18_CacheFrame ==
    [][/\ elements' # elements =>
            /\ pc = "tool" /\ calls[fc].name = "browser_snapshot"
            /\ last'.pos = fc
       /\ (/\ pc = "tool" /\ calls[fc].name = "browser_snapshot"
           /\ last'.pos = fc /\ last'.eng.act /\ last'.eng.query) =>
             LET near == SelectSeq(IdSeq, LAMBDA i : dom'[i] = "near")
             IN  /\ Len(elements') = Len(near)
                 /\ \A k \in 1..Len(near) :
                       elements'[k].index = k - 1 /\ elements'[k].el = near[k]]_vars

\* After a snapshot that listed elements the session navigated again, and
\* the cache still holds the list.
C18_Witness ==
    /\ Dispatched /\ last.call.name = "browser_navigate"
    /\ ~last.raised /\ last.value.msg = "Navigated to"
    /\ elements # <<>>

\* C19. When the live page a click(i) or type(i) finds is the page the
\* Snapshot Cache was read from, and i is the index of a snapshot record,
\* every element the call acts on is the element that record describes.
C19_IndexAgreement ==
    (/\ IndexCall /\ PassedCacheGate(last.call.args.index)
     /\ dom = snapDom) =>
       LET i == last.call.args.index
           acted == last.clicked \o last.filled
       IN  \A j \in 1..Len(acted) : acted[j] = elements[i + 1].el

\* C20. A click(i) or type(i) with i negative or not below the length of
\* the Snapshot Cache is answered "Invalid element index" naming i, without
\* asking the live page for its elements and without a click or a fill,
\* whatever the live page shows; with an empty cache (no snapshot yet) this
\* is so for every index.
C20_CacheGate ==
    (IndexCall /\ ~PassedCacheGate(last.call.args.index)) =>
      /\ ~last.queried
      /\ last.clicked = <<>> /\ last.filled = <<>>
      /\ AnsweredWithValue
      /\ last.value.msg = "Error: Invalid element index"
      /\ last.value.index = last.call.args.index
      /\ Running

\* Before any snapshot listed an element, click(0) on a page that shows a
\* visible element was answered with the index error.
C20_Witness ==
    /\ IndexCall /\ last.call.name = "browser_click"
    /\ last.call.args.index = 0
    /\ elements = <<>> /\ url # "about:blank"
    /\ Len(VisibleSet(dom)) >= 1
    /\ last.value.msg = "Error: Invalid element index"
    /\ ~last.queried

====
